---- MODULE Spec2Model ----
(***************************************************************************)
(* Model of src/lib/detect.ts: client IP resolution (getIpAddress), device *)
(* classification (getDevice), geolocation with the header fast path and   *)
(* the lazily opened process-wide MaxMind handle (getLocation), the        *)
(* aggregator (getClientInfo) and the blocklist matcher (hasBlockedIp).    *)
(*                                                                         *)
(* JavaScript strings are sequences of characters (one-character strings,  *)
(* or the code of a character outside ASCII), so that split, trim, regular *)
(* expression matching and re-decoding are computed and not assumed.  null *)
(* and undefined are the two sentinel values Null and Undefined, which no  *)
(* character sequence equals.                                              *)
(***************************************************************************)
EXTENDS Integers, Sequences, FiniteSets, TLC

VARIABLES env, maxmind, calls, ipCall, devCall, blkCall

vars == <<env, maxmind, calls, ipCall, devCall, blkCall>>

----------------------------------------------------------------------------
(* JavaScript values *)

Null == <<"null">>
Undefined == <<"undefined">>

\* JavaScript truthiness of a string-or-nullish value
Truthy(s) == s # Null /\ s # Undefined /\ s # <<>>

\* a || b
OrElse(a, b) == IF Truthy(a) THEN a ELSE b

\* A character outside printable ASCII is written by its code, "0x" followed
\* by the upper-case hexadecimal digits of the code point ("0xA0" is U+00A0);
\* tab, line feed, carriage return and form feed are "\t", "\n", "\r", "\f".

\* WhiteSpace and LineTerminator, the characters String.prototype.trim removes
WhiteSpace ==
  { " ", "\t", "\n", "\r", "\f", "0x0B", "0xA0", "0x1680", "0x2000", "0x2001",
    "0x2002", "0x2003", "0x2004", "0x2005", "0x2006", "0x2007", "0x2008",
    "0x2009", "0x200A", "0x2028", "0x2029", "0x202F", "0x205F", "0x3000",
    "0xFEFF" }

\* Index of the first occurrence of character c in s from index i on, 0 when
\* there is none
IndexFrom(s, c, i) ==
  IF \E j \in i..Len(s) : s[j] = c
  THEN CHOOSE j \in i..Len(s) : s[j] = c /\ \A h \in i..(j - 1) : s[h] # c
  ELSE 0

IndexOf(s, c) == IndexFrom(s, c, 1)

\* s.split(c)[0]
SplitFirst(s, c) ==
  LET i == IndexOf(s, c)
  IN IF i = 0 THEN s ELSE SubSeq(s, 1, i - 1)

\* s.split(c) as a sequence of strings
RECURSIVE Split(_, _)
Split(s, c) ==
  LET i == IndexOf(s, c)
  IN IF i = 0 THEN <<s>>
     ELSE <<SubSeq(s, 1, i - 1)>> \o Split(SubSeq(s, i + 1, Len(s)), c)

\* s without the characters of chars at its start, at its end
StripLeft(s, chars) ==
  IF \A i \in 1..Len(s) : s[i] \in chars THEN <<>>
  ELSE SubSeq(s, CHOOSE i \in 1..Len(s) :
                   s[i] \notin chars /\ \A h \in 1..(i - 1) : s[h] \in chars,
              Len(s))

StripRight(s, chars) ==
  IF \A i \in 1..Len(s) : s[i] \in chars THEN <<>>
  ELSE SubSeq(s, 1, CHOOSE i \in 1..Len(s) :
                      s[i] \notin chars /\ \A h \in (i + 1)..Len(s) : s[h] \in chars)

\* s.trim()
Trim(s) == StripRight(StripLeft(s, WhiteSpace), WhiteSpace)

\* s.includes(c) for a one-character c
Includes(s, c) == IndexOf(s, c) # 0

\* Header names are strings; the header fields of a request are a function
\* from names to values, with at most one name of each spelling up to letter
\* case.

\* the lower-case letter of every upper-case letter
ToLowerCase ==
  ("A" :> "a") @@ ("B" :> "b") @@ ("C" :> "c") @@ ("D" :> "d") @@ ("E" :> "e") @@
  ("F" :> "f") @@ ("G" :> "g") @@ ("H" :> "h") @@ ("I" :> "i") @@ ("J" :> "j") @@
  ("K" :> "k") @@ ("L" :> "l") @@ ("M" :> "m") @@ ("N" :> "n") @@ ("O" :> "o") @@
  ("P" :> "p") @@ ("Q" :> "q") @@ ("R" :> "r") @@ ("S" :> "s") @@ ("T" :> "t") @@
  ("U" :> "u") @@ ("V" :> "v") @@ ("W" :> "w") @@ ("X" :> "x") @@ ("Y" :> "y") @@
  ("Z" :> "z")

\* a header name in lower case, the form a Headers object compares names in
RECURSIVE LowerName(_)
LowerName(name) ==
  IF name = "" THEN ""
  ELSE (IF Head(name) \in DOMAIN ToLowerCase
        THEN ToLowerCase[Head(name)] ELSE Head(name))
       \o LowerName(Tail(name))

\* the characters of an HTTP token (the grave accent, also a token character,
\* cannot be written in a name here)
TokenChars ==
  DOMAIN ToLowerCase \cup { ToLowerCase[c] : c \in DOMAIN ToLowerCase } \cup
  { "0", "1", "2", "3", "4", "5", "6", "7", "8", "9",
    "!", "#", "$", "%", "&", "'", "*", "+", "-", ".", "^", "_", "|", "~" }

IsHeaderName(name) ==
  name # "" /\ \A i \in 1..Len(name) : SubSeq(name, i, i) \in TokenChars

\* the TypeError Headers.get throws for a name that is not a header name
TypeError == <<"TypeError">>

HttpWhiteSpace == { " ", "\t", "\n", "\r" }

\* a header value as a Headers object holds it: without leading and trailing
\* HTTP white space
Normalize(value) == StripRight(StripLeft(value, HttpWhiteSpace), HttpWhiteSpace)

\* Headers.get(name): names compare without regard to letter case; the value,
\* null when the header is absent, TypeError when name is not a header name
Get(headers, name) ==
  IF ~IsHeaderName(name) THEN TypeError
  ELSE LET found == { k \in DOMAIN headers :
                        Len(k) = Len(name) /\ LowerName(k) = LowerName(name) }
       IN IF found = {} THEN Null
          ELSE Normalize(headers[CHOOSE k \in found : TRUE])

----------------------------------------------------------------------------
(* constants.ts *)

IP_ADDRESS_HEADERS ==
  << "cf-connecting-ip", "x-client-ip", "x-forwarded-for", "do-connecting-ip",
     "fastly-client-ip", "true-client-ip", "x-real-ip", "x-cluster-client-ip",
     "x-forwarded", "forwarded", "x-appengine-user-ip" >>

----------------------------------------------------------------------------
(* getIpAddress *)

\* the character class [0-9a-fA-F:.]
AddrChars ==
  { "0", "1", "2", "3", "4", "5", "6", "7", "8", "9",
    "a", "b", "c", "d", "e", "f", "A", "B", "C", "D", "E", "F", ":", "." }

\* end of the longest run of AddrChars that starts at index k (k - 1 when empty)
RECURSIVE RunEnd(_, _)
RunEnd(s, k) ==
  IF k <= Len(s) /\ s[k] \in AddrChars THEN RunEnd(s, k + 1) ELSE k - 1

\* the capture of /for=(\[?[0-9a-fA-F:.]+\]?)/ anchored at index i, Null if
\* the pattern does not match there
ForwardedMatchAt(s, i) ==
  IF i + 3 > Len(s) \/ SubSeq(s, i, i + 3) # <<"f", "o", "r", "=">> THEN Null
  ELSE LET j == i + 4
           k == IF j + 1 <= Len(s) /\ s[j] = "[" /\ s[j + 1] \in AddrChars
                THEN j + 1 ELSE j
           e == RunEnd(s, k)
       IN IF e < k THEN Null
          ELSE IF e + 1 <= Len(s) /\ s[e + 1] = "]" THEN SubSeq(s, j, e + 1)
          ELSE SubSeq(s, j, e)

\* ip.match(/for=(\[?[0-9a-fA-F:.]+\]?)/)[1]: leftmost match, Null if none
RECURSIVE ForwardedMatchFrom(_, _)
ForwardedMatchFrom(s, i) ==
  IF i > Len(s) THEN Null
  ELSE IF ForwardedMatchAt(s, i) # Null THEN ForwardedMatchAt(s, i)
  ELSE ForwardedMatchFrom(s, i + 1)

ForwardedMatch(s) == ForwardedMatchFrom(s, 1)

\* the loop over IP_ADDRESS_HEADERS, from index i on
RECURSIVE IpHeaderLoop(_, _)
IpHeaderLoop(headers, i) ==
  IF i > Len(IP_ADDRESS_HEADERS) THEN Null
  ELSE LET name == IP_ADDRESS_HEADERS[i]
           ip == Get(headers, name)
       IN IF Truthy(ip)
          THEN IF name = "forwarded" /\ ForwardedMatch(ip) # Null
               THEN ForwardedMatch(ip)
               ELSE ip
          ELSE IpHeaderLoop(headers, i + 1)

\* getIpAddress with x-forwarded-for consulted before cf-connecting-ip
getIpAddress_XffFirst(headers, customHeader) ==
  LET cfIp == Get(headers, "cf-connecting-ip")
      forwardedFor == Get(headers, "x-forwarded-for")
  IN IF Truthy(forwardedFor) THEN Trim(SplitFirst(forwardedFor, ","))
     ELSE IF Truthy(cfIp) THEN cfIp
     ELSE IF customHeader # "" /\ Get(headers, customHeader) = TypeError
          THEN TypeError
     ELSE IF customHeader # "" /\ Truthy(Get(headers, customHeader))
          THEN Get(headers, customHeader)
     ELSE IpHeaderLoop(headers, 1)

\* customHeader is process.env.CLIENT_IP_HEADER, "" when it is not set; the
\* result is TypeError when headers.get(customHeader) throws
getIpAddress(headers, customHeader) ==
  LET cfIp == Get(headers, "cf-connecting-ip")
      forwardedFor == Get(headers, "x-forwarded-for")
  IN IF Truthy(cfIp) THEN cfIp
     ELSE IF customHeader # "" /\ Get(headers, customHeader) = TypeError
          THEN TypeError
     ELSE IF customHeader # "" /\ Truthy(Get(headers, customHeader))
          THEN Get(headers, customHeader)
     ELSE IF Truthy(forwardedFor) THEN Trim(SplitFirst(forwardedFor, ","))
     ELSE IpHeaderLoop(headers, 1)

----------------------------------------------------------------------------
(* getDevice *)

DESKTOP_SCREEN_WIDTH == 1920
LAPTOP_SCREEN_WIDTH == 1024
MOBILE_SCREEN_WIDTH == 479

DESKTOP_OS ==
  { "BeOS", "Chrome OS", "Linux", "Mac OS", "Open BSD", "OS/2", "QNX", "Sun OS",
    "Windows 10", "Windows 2000", "Windows 3.11", "Windows 7", "Windows 8",
    "Windows 8.1", "Windows 95", "Windows 98", "Windows ME",
    "Windows Server 2003", "Windows Vista", "Windows XP" }

MOBILE_OS == { "Amazon OS", "Android OS", "BlackBerry OS", "iOS", "Windows Mobile" }

Huge == 1000000

\* JavaScript numbers as getDevice compares them: NaN, or the floor v of the
\* value and whether the value has a fractional part.  Magnitudes from Huge
\* on, Infinity among them, are all written Huge.
Num(n) == [nan |-> FALSE, v |-> n, frac |-> FALSE]
NaN == [nan |-> TRUE, v |-> 0, frac |-> FALSE]

\* comparisons of a JavaScript number with an integer below Huge: all false
\* for NaN
Lt(a, n) == ~a.nan /\ a.v < n
Gt(a, n) == ~a.nan /\ (a.v > n \/ (a.v = n /\ a.frac))
Ge(a, n) == ~a.nan /\ a.v >= n

Digits == { "0", "1", "2", "3", "4", "5", "6", "7", "8", "9" }

DigitValue ==
  ("0" :> 0) @@ ("1" :> 1) @@ ("2" :> 2) @@ ("3" :> 3) @@ ("4" :> 4) @@
  ("5" :> 5) @@ ("6" :> 6) @@ ("7" :> 7) @@ ("8" :> 8) @@ ("9" :> 9)

RECURSIVE DecimalValue(_)
DecimalValue(s) ==
  IF s = <<>> THEN 0
  ELSE 10 * DecimalValue(SubSeq(s, 1, Len(s) - 1)) + DigitValue[s[Len(s)]]

HexDigits ==
  Digits \cup { "a", "b", "c", "d", "e", "f", "A", "B", "C", "D", "E", "F" }

HexValue ==
  DigitValue @@
  ("a" :> 10) @@ ("b" :> 11) @@ ("c" :> 12) @@ ("d" :> 13) @@ ("e" :> 14) @@
  ("f" :> 15) @@ ("A" :> 10) @@ ("B" :> 11) @@ ("C" :> 12) @@ ("D" :> 13) @@
  ("E" :> 14) @@ ("F" :> 15)

AllIn(s, chars) == \A i \in 1..Len(s) : s[i] \in chars

Min(a, b) == IF a < b THEN a ELSE b

\* the value of the digits s in the given radix, Huge when that or more:
\* more than 20 digits after the leading zeros are 2^20 or more in any radix
RECURSIVE RadixValue(_, _)
RadixValue(s, radix) ==
  LET t == StripLeft(s, {"0"})
  IN IF t = <<>> THEN 0
     ELSE IF Len(t) > 20 THEN Huge
     ELSE Min(Huge, radix * RadixValue(SubSeq(t, 1, Len(t) - 1), radix)
                    + HexValue[t[Len(t)]])

\* v * 10^k, Huge when that or more
RECURSIVE ShiftUp(_, _)
ShiftUp(v, k) ==
  IF k <= 0 \/ v = 0 \/ v >= Huge THEN Min(v, Huge)
  ELSE ShiftUp(Min(Huge, 10 * v), k - 1)

\* 0x, 0b and 0o literals: the value, NaN when s is not one
NonDecimalLiteral(s) ==
  LET digits == SubSeq(s, 3, Len(s))
      Literal(chars, radix) ==
        IF digits # <<>> /\ AllIn(digits, chars)
        THEN Num(RadixValue(digits, radix)) ELSE NaN
  IN IF Len(s) < 2 \/ s[1] # "0" THEN NaN
     ELSE IF s[2] \in {"x", "X"} THEN Literal(HexDigits, 16)
     ELSE IF s[2] \in {"b", "B"} THEN Literal({"0", "1"}, 2)
     ELSE IF s[2] \in {"o", "O"}
          THEN Literal({"0", "1", "2", "3", "4", "5", "6", "7"}, 8)
     ELSE NaN

\* the exponent part after e or E: [+-]? digits+, as <<valid, value>>
ExponentPart(s) ==
  LET signed == s # <<>> /\ s[1] \in {"+", "-"}
      digits == IF signed THEN Tail(s) ELSE s
      value == RadixValue(digits, 10)
  IN IF digits = <<>> \/ ~AllIn(digits, Digits) THEN <<FALSE, 0>>
     ELSE <<TRUE, IF signed /\ s[1] = "-" THEN 0 - value ELSE value>>

\* Twice the decimal x[1].x[2]x[3]..., digit by digit: a digit of 5 or more
\* carries one into the digit before it.  The integer part x[1] stops at 9.
Twice(x) ==
  <<>> \o [i \in 1..Len(x) |->
            LET c == IF i < Len(x) /\ x[i + 1] >= 5 THEN 1 ELSE 0
            IN IF i = 1 THEN Min(9, 2 * x[1] + c) ELSE (2 * x[i] + c) % 10]

\* 2^k times the decimal x, the integer part stopping at 9
RECURSIVE Doubled(_, _)
Doubled(x, k) ==
  IF k = 0 THEN x
  ELSE IF k = 1 THEN Twice(x)
  ELSE LET half == Doubled(x, k \div 2)
       IN IF Len(half) = Len(x) THEN Doubled(half, k - k \div 2) ELSE <<>>

\* The double nearest to n + 0.ds, ties to the even one, for an integer n >= 0
\* and decimal digits ds.  The doubles next to n + 0.ds are 2^(e - 52) apart
\* with 2^e <= n < 2^(e + 1); below 1 the value rounds to 0 from 2^-1075 down
\* and to 1 from 1 - 2^-54 up.  An integer below Huge is a double of even
\* significand, so a tie goes to the integer.
Rounded(n, ds) ==
  LET e == CHOOSE i \in 0..29 : 2^i <= n /\ n < 2^(i + 1)
      \* the fraction 0.fs is at most 2^-k
      Within(fs, k) ==
        LET x == Doubled(<<0>> \o fs, k)
        IN x[1] = 0 \/ (x[1] = 1 /\ \A i \in 2..Len(x) : x[i] = 0)
      \* the digits of 1 - 0.ds
      rest == [i \in 1..Len(ds) |->
                IF \A j \in (i + 1)..Len(ds) : ds[j] = 0
                THEN (10 - ds[i]) % 10 ELSE 9 - ds[i]]
  IN IF n >= Huge THEN Num(Huge)
     ELSE IF \A i \in 1..Len(ds) : ds[i] = 0 THEN Num(n)
     ELSE IF Within(ds, IF n = 0 THEN 1075 ELSE 53 - e) THEN Num(n)
     ELSE IF Within(rest, IF n = 0 THEN 54 ELSE 53 - e) THEN Num(n + 1)
     ELSE [nan |-> FALSE, v |-> n, frac |-> TRUE]

\* an unsigned decimal literal: digits, an optional fraction and an optional
\* exponent; Infinity; NaN when s is neither
UnsignedDecimalLiteral(s) ==
  LET e == IF IndexOf(s, "e") # 0 /\ (IndexOf(s, "E") = 0 \/ IndexOf(s, "e") < IndexOf(s, "E"))
           THEN IndexOf(s, "e") ELSE IndexOf(s, "E")
      mantissa == IF e = 0 THEN s ELSE SubSeq(s, 1, e - 1)
      exponent == IF e = 0 THEN <<TRUE, 0>> ELSE ExponentPart(SubSeq(s, e + 1, Len(s)))
      parts == Split(mantissa, ".")
      whole == parts[1]
      fraction == IF Len(parts) = 2 THEN parts[2] ELSE <<>>
      all == whole \o fraction
      point == Len(whole) + exponent[2]
  IN IF s = <<"I", "n", "f", "i", "n", "i", "t", "y">> THEN Num(Huge)
     ELSE IF \/ ~exponent[1]
             \/ Len(parts) > 2
             \/ all = <<>>
             \/ ~AllIn(all, Digits)
          THEN NaN
     ELSE IF point >= Len(all)
          THEN Num(ShiftUp(RadixValue(all, 10), point - Len(all)))
     ELSE IF point > 0
          THEN Rounded(RadixValue(SubSeq(all, 1, point), 10),
                       [i \in 1..(Len(all) - point) |-> DigitValue[all[point + i]]])
     ELSE IF point < 0 - 323 THEN Num(0)
     ELSE Rounded(0, [i \in 1..(Len(all) - point) |->
                        IF i <= 0 - point THEN 0 ELSE DigitValue[all[i + point]]])

\* unary plus on a string (StringToNumber): white space is trimmed, the empty
\* string is 0, a numeric literal is its value, anything else is NaN
ToNumber(s) ==
  LET t == Trim(s)
  IN IF t = <<>> THEN Num(0)
     ELSE IF ~NonDecimalLiteral(t).nan THEN NonDecimalLiteral(t)
     ELSE IF t[1] = "-"
          THEN LET a == UnsignedDecimalLiteral(Tail(t))
               IN IF a.nan THEN NaN
                  ELSE [nan |-> FALSE, frac |-> a.frac,
                        v |-> IF a.frac THEN 0 - a.v - 1 ELSE 0 - a.v]
     ELSE IF t[1] = "+" THEN UnsignedDecimalLiteral(Tail(t))
     ELSE UnsignedDecimalLiteral(t)

NoDevice == "undefined"

\* getDevice with >= in place of > in the mobile branch
getDevice_MobileGe(screen, os) ==
  IF ~Truthy(screen) THEN NoDevice
  ELSE LET width == ToNumber(SplitFirst(screen, "x"))
       IN IF os \in DESKTOP_OS
          THEN IF os = "Chrome OS" \/ Lt(width, DESKTOP_SCREEN_WIDTH)
               THEN "laptop" ELSE "desktop"
          ELSE IF os \in MOBILE_OS
          THEN IF os = "Amazon OS" \/ Ge(width, MOBILE_SCREEN_WIDTH)
               THEN "tablet" ELSE "mobile"
          ELSE IF Ge(width, DESKTOP_SCREEN_WIDTH) THEN "desktop"
          ELSE IF Ge(width, LAPTOP_SCREEN_WIDTH) THEN "laptop"
          ELSE IF Ge(width, MOBILE_SCREEN_WIDTH) THEN "tablet"
          ELSE "mobile"

getDevice(screen, os) ==
  IF ~Truthy(screen) THEN NoDevice
  ELSE LET width == ToNumber(SplitFirst(screen, "x"))
       IN IF os \in DESKTOP_OS
          THEN IF os = "Chrome OS" \/ Lt(width, DESKTOP_SCREEN_WIDTH)
               THEN "laptop" ELSE "desktop"
          ELSE IF os \in MOBILE_OS
          THEN IF os = "Amazon OS" \/ Gt(width, MOBILE_SCREEN_WIDTH)
               THEN "tablet" ELSE "mobile"
          ELSE IF Ge(width, DESKTOP_SCREEN_WIDTH) THEN "desktop"
          ELSE IF Ge(width, LAPTOP_SCREEN_WIDTH) THEN "laptop"
          ELSE IF Ge(width, MOBILE_SCREEN_WIDTH) THEN "tablet"
          ELSE "mobile"

----------------------------------------------------------------------------
(* Character codes, latin1 and UTF-8 *)

\* the printable ASCII characters, U+0020 to U+007E
Ascii ==
  << " ", "!", "0x22", "#", "$", "%", "&", "'", "(", ")", "*", "+", ",", "-", ".", "/",
     "0", "1", "2", "3", "4", "5", "6", "7", "8", "9", ":", ";", "<", "=", ">", "?",
     "@", "A", "B", "C", "D", "E", "F", "G", "H", "I", "J", "K", "L", "M", "N", "O",
     "P", "Q", "R", "S", "T", "U", "V", "W", "X", "Y", "Z", "[", "0x5C", "]", "^", "_",
     "0x60", "a", "b", "c", "d", "e", "f", "g", "h", "i", "j", "k", "l", "m", "n", "o",
     "p", "q", "r", "s", "t", "u", "v", "w", "x", "y", "z", "{", "|", "}", "~" >>

RECURSIVE HexString(_)
HexString(n) ==
  LET digits == << "0", "1", "2", "3", "4", "5", "6", "7", "8", "9",
                   "A", "B", "C", "D", "E", "F" >>
  IN IF n < 16 THEN digits[n + 1]
     ELSE HexString(n \div 16) \o digits[(n % 16) + 1]

RECURSIVE HexStringValue(_)
HexStringValue(str) ==
  IF str = "" THEN 0
  ELSE 16 * HexStringValue(SubSeq(str, 1, Len(str) - 1))
       + HexValue[SubSeq(str, Len(str), Len(str))]

\* the character (UTF-16 code unit) with the given code
CharOf(code) ==
  IF code >= 32 /\ code <= 126 THEN Ascii[code - 31]
  ELSE IF code = 9 THEN "\t"
  ELSE IF code = 10 THEN "\n"
  ELSE IF code = 12 THEN "\f"
  ELSE IF code = 13 THEN "\r"
  ELSE IF code < 16 THEN "0x0" \o HexString(code)
  ELSE "0x" \o HexString(code)

\* the code of a character
CodeOf(c) ==
  IF Len(c) > 2 THEN HexStringValue(SubSeq(c, 3, Len(c)))
  ELSE IF c = "\t" THEN 9
  ELSE IF c = "\n" THEN 10
  ELSE IF c = "\f" THEN 12
  ELSE IF c = "\r" THEN 13
  ELSE 31 + CHOOSE i \in 1..Len(Ascii) : Ascii[i] = c

\* The UTF-8 sequence that starts at b[1], a byte from 128 on: the number of
\* continuation bytes its lead byte calls for (0 when b[1] is no lead byte),
\* how many of them follow, and the code point when all do.
Utf8Sequence(b) ==
  LET lead == b[1]
      need == IF lead >= 194 /\ lead <= 223 THEN 1
              ELSE IF lead >= 224 /\ lead <= 239 THEN 2
              ELSE IF lead >= 240 /\ lead <= 244 THEN 3
              ELSE 0
      lower == IF lead = 224 THEN 160 ELSE IF lead = 240 THEN 144 ELSE 128
      upper == IF lead = 237 THEN 159 ELSE IF lead = 244 THEN 143 ELSE 191
      Continues(i) ==
        /\ i <= Len(b)
        /\ b[i] >= (IF i = 2 THEN lower ELSE 128)
        /\ b[i] <= (IF i = 2 THEN upper ELSE 191)
      found == CHOOSE k \in 0..need :
                 /\ \A i \in 2..(k + 1) : Continues(i)
                 /\ k = need \/ ~Continues(k + 2)
      point == IF need = 1 THEN (lead - 192) * 64 + (b[2] - 128)
               ELSE IF need = 2
                    THEN (lead - 224) * 4096 + (b[2] - 128) * 64 + (b[3] - 128)
               ELSE (lead - 240) * 262144 + (b[2] - 128) * 4096
                    + (b[3] - 128) * 64 + (b[4] - 128)
  IN [need |-> need, found |-> found,
      point |-> IF need > 0 /\ found = need THEN point ELSE 65533]

\* the UTF-16 code units of a code point
CodeUnits(point) ==
  IF point < 65536 THEN <<point>>
  ELSE << 55296 + ((point - 65536) \div 1024), 56320 + ((point - 65536) % 1024) >>

\* The code units bytes decode to as UTF-8: an ill-formed sequence is U+FFFD
\* for its longest well-formed start, and decoding goes on after that start.
RECURSIVE Utf8DecodeBytes(_)
Utf8DecodeBytes(b) ==
  IF b = <<>> THEN <<>>
  ELSE IF b[1] < 128 THEN <<b[1]>> \o Utf8DecodeBytes(Tail(b))
  ELSE LET seq == Utf8Sequence(b)
       IN CodeUnits(seq.point)
          \o Utf8DecodeBytes(SubSeq(b, seq.found + 2, Len(b)))

\* the string with the given code units
String(units) == [i \in 1..Len(units) |-> CharOf(units[i])]

----------------------------------------------------------------------------
(* getRegionCode, decodeHeader *)

\* getRegionCode(country, region)
getRegionCode(country, region) ==
  IF ~Truthy(country) \/ ~Truthy(region) THEN Undefined
  ELSE IF Includes(region, "-") THEN region
  ELSE country \o <<"-">> \o region

\* Buffer.from(s, 'latin1').toString('utf-8'): latin1 writes the low byte of
\* every code unit
Utf8Decode(s) ==
  String(Utf8DecodeBytes([i \in 1..Len(s) |-> CodeOf(s[i]) % 256]))

decodeHeader(s) == IF s = Undefined \/ s = Null THEN s ELSE Utf8Decode(s)

----------------------------------------------------------------------------
(* ipaddr.js, as hasBlockedIp uses it: parse, parseCIDR, kind, match.       *)
(* IPv4 addresses are four decimal octets, IPv6 addresses are groups of     *)
(* hexadecimal digits with at most one "::".                                *)

RECURSIVE HexGroupValue(_)
HexGroupValue(s) ==
  IF s = <<>> THEN 0
  ELSE 16 * HexGroupValue(SubSeq(s, 1, Len(s) - 1)) + HexValue[s[Len(s)]]

IsString(s) == s # Null /\ s # Undefined

Invalid == [kind |-> "invalid", parts |-> <<>>]

IsOctet(p) == p # <<>> /\ Len(p) <= 3 /\ AllIn(p, Digits) /\ DecimalValue(p) <= 255

\* IPv4.parse
ParseIPv4(s) ==
  LET ps == Split(s, ".")
  IN IF Len(ps) = 4 /\ \A i \in 1..4 : IsOctet(ps[i])
     THEN [kind |-> "ipv4", parts |-> [i \in 1..4 |-> DecimalValue(ps[i])]]
     ELSE Invalid

IsHexGroup(p) == p # <<>> /\ Len(p) <= 4 /\ AllIn(p, HexDigits)

\* index of the first "::" in s, 0 when there is none
RECURSIVE DoubleColonFrom(_, _)
DoubleColonFrom(s, i) ==
  IF i + 1 > Len(s) THEN 0
  ELSE IF s[i] = ":" /\ s[i + 1] = ":" THEN i
  ELSE DoubleColonFrom(s, i + 1)

Groups(s) == IF s = <<>> THEN <<>> ELSE Split(s, ":")

\* IPv6.parse
ParseIPv6(s) ==
  LET d == DoubleColonFrom(s, 1)
  IN IF d = 0
     THEN LET gs == Split(s, ":")
          IN IF Len(gs) = 8 /\ \A i \in 1..8 : IsHexGroup(gs[i])
             THEN [kind |-> "ipv6", parts |-> [i \in 1..8 |-> HexGroupValue(gs[i])]]
             ELSE Invalid
     ELSE LET left == Groups(SubSeq(s, 1, d - 1))
              right == Groups(SubSeq(s, d + 2, Len(s)))
              zeros == 8 - Len(left) - Len(right)
          IN IF /\ zeros >= 1
                /\ \A i \in 1..Len(left) : IsHexGroup(left[i])
                /\ \A i \in 1..Len(right) : IsHexGroup(right[i])
             THEN [kind |-> "ipv6",
                   parts |-> [i \in 1..8 |->
                     IF i <= Len(left) THEN HexGroupValue(left[i])
                     ELSE IF i <= Len(left) + zeros THEN 0
                     ELSE HexGroupValue(right[i - Len(left) - zeros])]]
             ELSE Invalid

\* ipaddr.parse: IPv6 first, then IPv4; Invalid stands for the thrown Error
Parse(s) ==
  IF ~IsString(s) THEN Invalid
  ELSE IF ParseIPv6(s) # Invalid THEN ParseIPv6(s)
  ELSE ParseIPv4(s)

\* index of the last occurrence of c in s, 0 when there is none
RECURSIVE LastIndexFrom(_, _, _)
LastIndexFrom(s, c, i) ==
  IF i < 1 THEN 0
  ELSE IF s[i] = c THEN i
  ELSE LastIndexFrom(s, c, i - 1)

InvalidRange == [addr |-> Invalid, bits |-> 0]

\* ipaddr.parseCIDR: /^(.+)\/(\d+)$/, the address in either family and a
\* prefix length within the family's width; InvalidRange stands for the
\* thrown Error
ParseCIDR(s) ==
  LET i == LastIndexFrom(s, "/", Len(s))
      a == SubSeq(s, 1, i - 1)
      b == SubSeq(s, i + 1, Len(s))
  IN IF i <= 1 \/ b = <<>> \/ ~AllIn(b, Digits) \/ Len(b) > 3 THEN InvalidRange
     ELSE LET addr == Parse(a)
              bits == DecimalValue(b)
          IN IF addr.kind = "ipv6" /\ bits <= 128 THEN [addr |-> addr, bits |-> bits]
             ELSE IF addr.kind = "ipv4" /\ bits <= 32 THEN [addr |-> addr, bits |-> bits]
             ELSE InvalidRange

RECURSIVE Pow2(_)
Pow2(n) == IF n = 0 THEN 1 ELSE 2 * Pow2(n - 1)

\* ipaddr.matchCIDR(first, second, partSize, cidrBits), from part on
RECURSIVE MatchCIDR(_, _, _, _, _)
MatchCIDR(first, second, partSize, cidrBits, part) ==
  IF cidrBits <= 0 THEN TRUE
  ELSE LET shift == IF partSize - cidrBits < 0 THEN 0 ELSE partSize - cidrBits
       IN IF first[part] \div Pow2(shift) # second[part] \div Pow2(shift) THEN FALSE
          ELSE MatchCIDR(first, second, partSize, cidrBits - partSize, part + 1)

PartSize(kind) == IF kind = "ipv4" THEN 8 ELSE 16

\* addr.match(range) for an address and a range of the same kind
Match(addr, range) ==
  MatchCIDR(addr.parts, range.addr.parts, PartSize(addr.kind), range.bits, 1)

----------------------------------------------------------------------------
(* hasBlockedIp *)

False == <<"false">>

Returned(v) == [threw |-> FALSE, value |-> v]
Threw == [threw |-> TRUE, value |-> Undefined]

RECURSIVE MapTrim(_)
MapTrim(ss) == IF ss = <<>> THEN <<>> ELSE <<Trim(Head(ss))>> \o MapTrim(Tail(ss))

\* ips.find(ip => ...), from index i on
RECURSIVE FindBlocked(_, _, _)
FindBlocked(ips, clientIp, i) ==
  IF i > Len(ips) THEN Returned(Undefined)
  ELSE LET ip == ips[i]
       IN IF ip = clientIp THEN Returned(ip)
          ELSE IF IndexOf(ip, "/") > 1
          THEN LET addr == Parse(clientIp)
                   range == ParseCIDR(ip)
               IN IF addr = Invalid THEN Threw
                  ELSE IF range = InvalidRange THEN Threw
                  ELSE IF addr.kind = range.addr.kind /\ Match(addr, range)
                       THEN Returned(ip)
                  ELSE FindBlocked(ips, clientIp, i + 1)
          ELSE FindBlocked(ips, clientIp, i + 1)

hasBlockedIp(clientIp, ignoreIps) ==
  IF Truthy(ignoreIps)
  THEN FindBlocked(MapTrim(Split(ignoreIps, ",")), clientIp, 1)
  ELSE Returned(False)

----------------------------------------------------------------------------
(* lib/url: safeDecodeURIComponent *)

\* the characters U+0020 .. U+007E, in code order (the quotes and the
\* backslash written by their codes)
DecodeError == <<"URIError">>

\* the byte the escape %XX at index i of s stands for, -1 when there is none
EscapeAt(s, i) ==
  IF i + 2 <= Len(s) /\ s[i] = "%" /\ s[i + 1] \in HexDigits /\ s[i + 2] \in HexDigits
  THEN 16 * HexValue[s[i + 1]] + HexValue[s[i + 2]]
  ELSE 0 - 1

\* decodeURIComponent: an escape below %80 is its character, escapes from
\* %80 on decode together as one well-formed UTF-8 sequence, any other
\* character stands for itself; a "%" not followed by two hexadecimal digits,
\* or escapes that are not well-formed UTF-8, are a URIError
RECURSIVE PercentDecode(_)
PercentDecode(s) ==
  IF s = <<>> THEN <<>>
  ELSE IF Head(s) # "%"
       THEN LET rest == PercentDecode(Tail(s))
            IN IF rest = DecodeError THEN DecodeError ELSE <<Head(s)>> \o rest
  ELSE IF EscapeAt(s, 1) < 0 THEN DecodeError
  ELSE IF EscapeAt(s, 1) < 128
       THEN LET rest == PercentDecode(SubSeq(s, 4, Len(s)))
            IN IF rest = DecodeError THEN DecodeError
               ELSE <<CharOf(EscapeAt(s, 1))>> \o rest
  ELSE LET need == Utf8Sequence(<<EscapeAt(s, 1)>>).need
           octets == [k \in 1..(need + 1) |-> EscapeAt(s, 3 * k - 2)]
           seq == Utf8Sequence(octets)
           rest == PercentDecode(SubSeq(s, 3 * need + 4, Len(s)))
       IN IF need = 0 \/ seq.found # need \/ rest = DecodeError THEN DecodeError
          ELSE String(CodeUnits(seq.point)) \o rest

safeDecodeURIComponent(s) ==
  IF s = Undefined \/ s = Null THEN s
  ELSE IF PercentDecode(s) = DecodeError THEN s
  ELSE PercentDecode(s)

----------------------------------------------------------------------------
(* The strings of the model *)

IP_V4 == <<"1", ".", "2", ".", "3", ".", "4">>
IP_V4_PORT == IP_V4 \o <<":", "8", "0">>
IP_V4_B == <<"5", ".", "6", ".", "7", ".", "8">>
IP_V4_C == <<"9", ".", "9", ".", "9", ".", "9">>
IP_V6 == <<"2", "0", "0", "1", ":", "d", "b", "8", ":", ":", "1">>
IP_LOOPBACK == <<"1", "2", "7", ".", "0", ".", "0", ".", "1">>
IP_LOOPBACK6 == <<":", ":", "1">>
IP_PRIVATE == <<"1", "0", ".", "1", ".", "2", ".", "3">>

US == <<"U", "S">>
CA == <<"C", "A">>
US_CA == <<"U", "S", "-", "C", "A">>
DE == <<"D", "E">>
FR == <<"F", "R">>
JP == <<"J", "P">>

----------------------------------------------------------------------------
(* is-localhost-ip and the MaxMind reader *)

\* isLocalhost(ip): loopback and private addresses; false for a non-string
IsLocalhost(ip) ==
  /\ IsString(ip)
  /\ \/ ip = IP_LOOPBACK6
     \/ /\ ParseIPv4(ip) # Invalid
        /\ \/ ParseIPv4(ip).parts[1] \in {10, 127}
           \/ ParseIPv4(ip).parts[1] = 192 /\ ParseIPv4(ip).parts[2] = 168

DbEntry(country, registered, region, city) ==
  [found |-> TRUE, country |-> country, registered |-> registered,
   region |-> region, city |-> city]

DbNone == [found |-> FALSE, country |-> Undefined, registered |-> Undefined,
           region |-> Undefined, city |-> Undefined]

\* reader.get(address): the records of the database file
DbGet(address) ==
  IF address = IP_V4
  THEN DbEntry(US, US, CA, <<"L", "A">>)
  ELSE IF address = IP_V4_B
  THEN DbEntry(Undefined, FR, Undefined, Undefined)
  ELSE IF address = IP_V4_C
  THEN DbEntry(US, US, US_CA, <<"S", "%", "2", "0", "F">>)
  ELSE IF address = IP_V6
  THEN DbEntry(JP, JP, <<"1", "3">>, <<"T", "o", "k", "y", "o">>)
  ELSE DbNone

----------------------------------------------------------------------------
(* getLocation *)

Location(country, region, city) ==
  [present |-> TRUE, country |-> country, region |-> region, city |-> city]

NoLocation ==
  [present |-> FALSE, country |-> Undefined, region |-> Undefined,
   city |-> Undefined]

\* the location read from the country, region and city headers
HeaderLocation(headers, countryName, regionName, cityName) ==
  LET country == decodeHeader(Get(headers, countryName))
      region == decodeHeader(Get(headers, regionName))
      city == decodeHeader(Get(headers, cityName))
  IN Location(country, getRegionCode(country, region), city)

CloudflareLocation(headers) ==
  HeaderLocation(headers, "cf-ipcountry", "cf-region-code", "cf-ipcity")

VercelLocation(headers) ==
  HeaderLocation(headers, "x-vercel-ip-country", "x-vercel-ip-country-region",
                 "x-vercel-ip-city")

\* ip?.split(':')[0]
CleanIp(ip) == IF IsString(ip) THEN SplitFirst(ip, ":") ELSE Undefined

\* the location made from a database result
DbLocation(result) ==
  IF result.found
  THEN LET country == IF result.country \in {Null, Undefined}
                      THEN result.registered ELSE result.country
       IN Location(country, getRegionCode(country, result.region), result.city)
  ELSE NoLocation

\* the fast path guard without the hasPayloadIP test
FastPath_IgnoresPayload(hasPayloadIP, skip) == ~skip

\* !hasPayloadIP && !process.env.SKIP_LOCATION_HEADERS
FastPath(hasPayloadIP, skip) == ~hasPayloadIP /\ ~skip

----------------------------------------------------------------------------
(* detect-browser: browserName and detectOS on the user agents of the model *)

UA_CHROME_WIN == <<"C", "h", "r", "o", "m", "e", "/", "W", "i", "n">>
UA_SAFARI_IOS == <<"S", "a", "f", "a", "r", "i", "/", "i", "O", "S">>

NoOs == "null"

detectOS(userAgent) ==
  IF userAgent = UA_CHROME_WIN THEN "Windows 10"
  ELSE IF userAgent = UA_SAFARI_IOS THEN "iOS"
  ELSE NoOs

browserName(userAgent) ==
  IF userAgent = UA_CHROME_WIN THEN "chrome"
  ELSE IF userAgent = UA_SAFARI_IOS THEN "ios"
  ELSE "null"

----------------------------------------------------------------------------
(* Requests *)

\* the header set that holds the headers of choice whose value is not Null
HeadersOf(choice) ==
  [n \in {m \in DOMAIN choice : choice[m] # Null} |-> choice[n]]

FWD_QUOTED ==
  <<"f", "o", "r", "=", "0x22", "[">> \o IP_V6 \o
  <<"]", "0x22", ";", "p", "r", "o", "t", "o", "=", "h", "t", "t", "p", "s">>
FWD_BRACKET == <<"f", "o", "r", "=", "[">> \o IP_V6 \o <<"]">>
FWD_V4 == <<"f", "o", "r", "=">> \o IP_V4 \o <<";", "b", "y", "=", "x">>
XFF_LIST == IP_V4 \o <<",", " ">> \o IP_V4_B
XFF_BLANK == <<" ", ",">> \o IP_V4_B
XFF_NBSP == IP_V4 \o <<"0xA0", ",", " ">> \o IP_V4_B

CfGeoHeaders ==
  ("cf-ipcountry" :> US) @@ ("cf-region-code" :> CA) @@
  ("cf-ipcity" :> <<"L", "0xC3", "0xA9", "o", "n">>)

VercelGeoHeaders ==
  ("x-vercel-ip-country" :> DE) @@
  ("X-Vercel-IP-Country-Region" :> <<"N", "W">>) @@
  ("x-vercel-ip-city" :> <<"K", "%", "C", "3", "%", "B", "6", "l", "n", "0xE9">>)

NoHeaders == HeadersOf("cf-ipcountry" :> Null)

Payload(ip, userAgent, screen) ==
  [ip |-> ip, userAgent |-> userAgent, screen |-> screen]

NoPayload == Payload(Undefined, Undefined, Undefined)

SCREEN_PHONE == <<"3", "7", "5", "x", "6", "6", "7">>
SCREEN_FULL_HD == <<"1", "9", "2", "0", "x", "1", "0", "8", "0">>

----------------------------------------------------------------------------
(* State *)

Procs == { "p1", "p2" }

\* The reader that a maxmind.open of the process resolves to.  At most one
\* open of a process resolves: once global[MAXMIND] is set no call opens
\* again.
Reader == ("p1" :> 1) @@ ("p2" :> 2)

NoInfo ==
  [userAgent |-> Undefined, browser |-> "null", os |-> NoOs, ip |-> Undefined,
   country |-> Undefined, region |-> Undefined, city |-> Undefined,
   device |-> NoDevice]

\* A call of getClientInfo or getLocation.  pc is where the call stands:
\* "isLocalhost" and "open" are the two awaits of getLocation; "returned" and
\* "threw" are getClientInfo at `await getLocation(...)` once getLocation
\* has returned or thrown; "done" and "error" are the call returned or
\* thrown to its caller, "typeError" thrown by getIpAddress.
\* source, cleanIp, handle, openId, afterRejection, wrote and readGeo record
\* what the call did: where the location came from, the address and the
\* handle of reader.get, the reader of the maxmind.open call it made, whether
\* it made that call while a call with a rejected maxmind.open was there,
\* whether it assigned global[MAXMIND], whether it read a geolocation header.
IdleCall ==
  [pc |-> "idle", fn |-> "none", headers |-> NoHeaders,
   payload |-> NoPayload,
   ip |-> Undefined, hasPayloadIP |-> FALSE,
   location |-> NoLocation, source |-> "none", cleanIp |-> Undefined,
   handle |-> 0, openId |-> 0, afterRejection |-> FALSE, wrote |-> FALSE,
   readGeo |-> FALSE,
   info |-> NoInfo]

Env(customHeader, skip, ignoreIps) ==
  [CLIENT_IP_HEADER |-> customHeader, SKIP_LOCATION_HEADERS |-> skip,
   IGNORE_IP |-> ignoreIps]

IdleIpCall == [pc |-> "idle", headers |-> NoHeaders, result |-> Null]
IdleDevCall == [pc |-> "idle", screen |-> Undefined, os |-> NoOs, result |-> NoDevice]
IdleBlkCall == [pc |-> "idle", clientIp |-> Undefined, result |-> Returned(False)]

----------------------------------------------------------------------------
(* getIpAddress on its own *)

IpHeaderSets ==
  { HeadersOf(("cf-connecting-ip" :> cf) @@ ("x-custom" :> cu) @@
              ("x-forwarded-for" :> xff) @@ ("x-real-ip" :> re) @@
              ("forwarded" :> fwd) @@ ("x-appengine-user-ip" :> ae)) :
      cf \in {Null, <<>>, IP_V4_C},
      cu \in {Null, IP_V4_B},
      xff \in {Null, XFF_LIST, XFF_BLANK, XFF_NBSP, IP_V4_PORT},
      re \in {Null, IP_PRIVATE},
      fwd \in {Null, FWD_QUOTED, FWD_BRACKET, FWD_V4, <<"b", "y", "=", "x">>},
      ae \in {Null, IP_LOOPBACK} }

\* values of CLIENT_IP_HEADER: not set, names of headers in either letter
\* case, and a value that is no header name
CustomHeaderNames == { "", "x-custom", "X-Custom", "forwarded", "bad name" }

InitIp ==
  /\ env \in { Env(c, FALSE, Undefined) : c \in CustomHeaderNames }
  /\ ipCall \in { [pc |-> "start", headers |-> h, result |-> Null] : h \in IpHeaderSets }
  /\ maxmind = 0
  /\ calls = [p \in Procs |-> IdleCall]
  /\ devCall = IdleDevCall
  /\ blkCall = IdleBlkCall

GetIpAddressCall ==
  /\ ipCall.pc = "start"
  /\ ipCall' = [ipCall EXCEPT !.pc = "done",
                              !.result = getIpAddress(ipCall.headers, env.CLIENT_IP_HEADER)]
  /\ UNCHANGED <<env, maxmind, calls, devCall, blkCall>>

NextIp == GetIpAddressCall

SpecIp == InitIp /\ [][NextIp]_vars

----------------------------------------------------------------------------
(* getDevice on its own *)

Screens ==
  { Undefined, <<>>,
    SCREEN_PHONE, SCREEN_FULL_HD,
    <<"4", "7", "9", "x", "8", "0", "0">>,
    <<"4", "8", "0", "x", "8", "0", "0">>,
    <<"8", "0", "0", "x", "6", "0", "0">>,
    <<"1", "0", "2", "3", "x", "7", "6", "8">>,
    <<"1", "0", "2", "4", "x", "7", "6", "8">>,
    <<"1", "9", "1", "9", "x", "1", "0", "8", "0">>,
    <<"2", "5", "6", "0">>,
    <<"x", "1", "0", "8", "0">>,
    <<" ", "8", "0", "0", "x", "6", "0", "0">>,
    <<"8", "0", "0", "p", "x", "6", "0", "0">>,
    <<"w", "i", "d", "e">>,
    <<"1", "e", "3", "x", "1", "0", "0">>,
    <<"4", "7", "9", ".", "5", "x", "8", "0", "0">>,
    <<"1", "9", "1", "9", ".", "5", "x", "1", "0", "8", "0">>,
    <<"4", "7", "9", ".", "0", "0", "0", "0", "0", "0", "0", "0", "0", "0", "0", "0", "0", "0", "0", "0", "1", "x", "8", "0", "0">>,
    <<"4", "7", "8", ".", "9", "9", "9", "9", "9", "9", "9", "9", "9", "9", "9", "9", "9", "9", "9", "9", "9", "x", "8", "0", "0">>,
    <<"1", "9", "1", "9", ".", "9", "9", "9", "9", "9", "9", "9", "9", "9", "9", "9", "9", "9", "9", "9", "9", "x", "1", "0", "8", "0">>,
    <<"1", "9", "2", "0", "0", "e", "-", "1", "x", "1">>,
    <<"0", "X", "7", "8", "0", "x", "1">>,
    <<"-", "5", "x", "5">>,
    <<"I", "n", "f", "i", "n", "i", "t", "y", "x", "1">>,
    <<"0xA0", "4", "8", "0", "\n", "x", "8", "0", "0">> }

OsNames ==
  { "Windows 10", "Mac OS", "Linux", "Chrome OS", "iOS", "Android OS",
    "Amazon OS", "Windows", NoOs }

InitDev ==
  /\ devCall \in { [pc |-> "start", screen |-> sc, os |-> os, result |-> NoDevice] :
                     sc \in Screens, os \in OsNames }
  /\ env = Env("", FALSE, Undefined)
  /\ ipCall = IdleIpCall
  /\ maxmind = 0
  /\ calls = [p \in Procs |-> IdleCall]
  /\ blkCall = IdleBlkCall

GetDeviceCall ==
  /\ devCall.pc = "start"
  /\ devCall' = [devCall EXCEPT !.pc = "done",
                                !.result = getDevice(devCall.screen, devCall.os)]
  /\ UNCHANGED <<env, maxmind, calls, ipCall, blkCall>>

NextDev == GetDeviceCall

SpecDev == InitDev /\ [][NextDev]_vars

----------------------------------------------------------------------------
(* hasBlockedIp on its own *)

Comma == <<",">>
CIDR_10 == <<"1", "0", ".", "0", ".", "0", ".", "0", "/", "8">>
CIDR_V6 == <<"2", "0", "0", "1", ":", "d", "b", "8", ":", ":", "/", "3", "2">>
CIDR_BAD == <<"1", "0", ".", "x", "/", "8">>
NOT_AN_IP == <<"u", "n", "k", "n", "o", "w", "n">>

IgnoreLists ==
  { Undefined, <<>>,
    IP_V4,
    CIDR_10,
    CIDR_V6,
    CIDR_BAD,
    IP_V4 \o Comma \o <<" ">> \o CIDR_10,
    <<"\n">> \o IP_V4_B \o <<"0xA0">> \o Comma \o <<"\t">> \o CIDR_10 \o <<"\r", "\n">>,
    CIDR_10 \o Comma \o IP_V4,
    CIDR_BAD \o Comma \o CIDR_10,
    CIDR_10 \o <<"3">> \o Comma \o IP_V4,
    CIDR_V6 \o Comma \o CIDR_10,
    NOT_AN_IP \o Comma \o CIDR_10,
    CIDR_10 \o Comma \o NOT_AN_IP }

ClientIps ==
  { IP_V4, IP_V4_B, IP_PRIVATE, IP_V6, IP_LOOPBACK6, IP_V4_PORT, NOT_AN_IP,
    <<"1", "0", ".", "2", "5", "5", ".", "0", ".", "1">>,
    <<"1", "1", ".", "0", ".", "0", ".", "1">>,
    <<"2", "0", "0", "1", ":", "d", "b", "9", ":", ":", "1">> }

InitBlk ==
  /\ env \in { Env("", FALSE, l) : l \in IgnoreLists }
  /\ blkCall \in { [pc |-> "start", clientIp |-> ip, result |-> Returned(False)] :
                     ip \in ClientIps }
  /\ ipCall = IdleIpCall
  /\ devCall = IdleDevCall
  /\ maxmind = 0
  /\ calls = [p \in Procs |-> IdleCall]

HasBlockedIpCall ==
  /\ blkCall.pc = "start"
  /\ blkCall' = [blkCall EXCEPT !.pc = "done",
                                !.result = hasBlockedIp(blkCall.clientIp, env.IGNORE_IP)]
  /\ UNCHANGED <<env, maxmind, calls, ipCall, devCall>>

NextBlk == HasBlockedIpCall

SpecBlk == InitBlk /\ [][NextBlk]_vars

----------------------------------------------------------------------------
(* getClientInfo and getLocation, called concurrently *)

UserAgentHeader == "User-Agent" :> UA_CHROME_WIN

GeoHeaders == CfGeoHeaders @@ VercelGeoHeaders

\* arguments (request.headers, payload) of the getClientInfo calls
ClientInfoArguments ==
  { <<UserAgentHeader, NoPayload>>,
    <<("cf-connecting-ip" :> IP_V4_PORT) @@ GeoHeaders @@ UserAgentHeader, NoPayload>>,
    <<("cf-connecting-ip" :> IP_V4_PORT) @@ UserAgentHeader, NoPayload>>,
    <<("CF-Connecting-IP" :> IP_V4_PORT) @@ VercelGeoHeaders @@ UserAgentHeader,
      NoPayload>>,
    <<("x-forwarded-for" :> IP_LOOPBACK) @@ GeoHeaders @@ UserAgentHeader, NoPayload>>,
    <<("x-forwarded-for" :> IP_LOOPBACK) @@ GeoHeaders @@ UserAgentHeader,
      Payload(IP_V4_B, Undefined, SCREEN_FULL_HD)>>,
    <<UserAgentHeader, Payload(IP_V6, UA_SAFARI_IOS, SCREEN_PHONE)>> }

\* arguments (ip, headers, hasPayloadIP) of the direct getLocation calls
LocationArguments ==
  { <<IP_V4_C, VercelGeoHeaders, FALSE>>,
    <<IP_V4_C, GeoHeaders, TRUE>>,
    <<IP_PRIVATE, VercelGeoHeaders, TRUE>>,
    <<IP_PRIVATE, GeoHeaders, FALSE>> }

InitLoc ==
  /\ env \in { Env("", FALSE, Undefined), Env("", TRUE, Undefined),
               Env("bad name", FALSE, Undefined) }
  /\ maxmind = 0
  /\ calls = [p \in Procs |-> IdleCall]
  /\ ipCall = IdleIpCall
  /\ devCall = IdleDevCall
  /\ blkCall = IdleBlkCall

\* getClientInfo up to `await getLocation(...)`, and getLocation up to
\* `await isLocalhost(ip)`; a TypeError of getIpAddress ends the call
GetClientInfo(p) ==
  /\ calls[p].pc = "idle"
  /\ \E arguments \in ClientInfoArguments :
       LET headers == arguments[1]
           payload == arguments[2]
           ip == OrElse(payload.ip, getIpAddress(headers, env.CLIENT_IP_HEADER))
       IN calls' = [calls EXCEPT ![p] =
            IF ip = TypeError
            THEN [IdleCall EXCEPT
                    !.pc = "typeError", !.fn = "getClientInfo",
                    !.headers = headers, !.payload = payload]
            ELSE [IdleCall EXCEPT
                    !.pc = "isLocalhost", !.fn = "getClientInfo",
                    !.headers = headers, !.payload = payload, !.ip = ip,
                    !.hasPayloadIP = Truthy(payload.ip)]]
  /\ UNCHANGED <<env, maxmind, ipCall, devCall, blkCall>>

\* getLocation called on its own, up to `await isLocalhost(ip)`
GetLocation(p) ==
  /\ calls[p].pc = "idle"
  /\ \E arguments \in LocationArguments :
       calls' = [calls EXCEPT ![p] =
         [IdleCall EXCEPT
            !.pc = "isLocalhost", !.fn = "getLocation", !.ip = arguments[1],
            !.headers = arguments[2], !.hasPayloadIP = arguments[3]]]
  /\ UNCHANGED <<env, maxmind, ipCall, devCall, blkCall>>

\* the record getClientInfo builds once it has location
ClientInfo(c, location) ==
  LET userAgent == OrElse(c.payload.userAgent, Get(c.headers, "user-agent"))
      os == detectOS(userAgent)
  IN [userAgent |-> userAgent, browser |-> browserName(userAgent), os |-> os,
      ip |-> c.ip,
      country |-> safeDecodeURIComponent(location.country),
      region |-> safeDecodeURIComponent(location.region),
      city |-> safeDecodeURIComponent(location.city),
      device |-> getDevice(c.payload.screen, os)]

\* getLocation returns location in the call c: a direct call is done, a
\* getClientInfo call has yet to resume from its await
Returns(c, location, source) ==
  [c EXCEPT !.pc = IF c.fn = "getClientInfo" THEN "returned" ELSE "done",
            !.location = location, !.source = source]

\* getLocation throws in the call c
Throws(c) == [c EXCEPT !.pc = IF c.fn = "getClientInfo" THEN "threw" ELSE "error"]

HasCloudflare(c) == Truthy(Get(c.headers, "cf-ipcountry"))
HasVercel(c) == Truthy(Get(c.headers, "x-vercel-ip-country"))
FastPathOf(c) == FastPath(c.hasPayloadIP, env.SKIP_LOCATION_HEADERS)

\* the call falls through to the database lookup
ReachesDatabase(c) ==
  /\ c.pc = "isLocalhost"
  /\ ~IsLocalhost(c.ip)
  /\ ~(FastPathOf(c) /\ (HasCloudflare(c) \/ HasVercel(c)))

\* if (await isLocalhost(ip)) return;
ReturnLocal(p) ==
  /\ calls[p].pc = "isLocalhost"
  /\ IsLocalhost(calls[p].ip)
  /\ calls' = [calls EXCEPT ![p] = Returns(calls[p], NoLocation, "none")]
  /\ UNCHANGED <<env, maxmind, ipCall, devCall, blkCall>>

\* the Cloudflare headers read before the locality check
ReturnCloudflare_BeforeLocal(p) ==
  /\ calls[p].pc = "isLocalhost"
  /\ FastPathOf(calls[p])
  /\ HasCloudflare(calls[p])
  /\ calls' = [calls EXCEPT ![p] =
       Returns([calls[p] EXCEPT !.readGeo = TRUE],
               CloudflareLocation(calls[p].headers), "cloudflare")]
  /\ UNCHANGED <<env, maxmind, ipCall, devCall, blkCall>>

\* the Cloudflare headers
ReturnCloudflare(p) ==
  /\ calls[p].pc = "isLocalhost"
  /\ ~IsLocalhost(calls[p].ip)
  /\ FastPathOf(calls[p])
  /\ HasCloudflare(calls[p])
  /\ calls' = [calls EXCEPT ![p] =
       Returns([calls[p] EXCEPT !.readGeo = TRUE],
               CloudflareLocation(calls[p].headers), "cloudflare")]
  /\ UNCHANGED <<env, maxmind, ipCall, devCall, blkCall>>

\* the Vercel headers consulted whether or not the Cloudflare ones are there
ReturnVercel_First(p) ==
  /\ calls[p].pc = "isLocalhost"
  /\ ~IsLocalhost(calls[p].ip)
  /\ FastPathOf(calls[p])
  /\ HasVercel(calls[p])
  /\ calls' = [calls EXCEPT ![p] =
       Returns([calls[p] EXCEPT !.readGeo = TRUE],
               VercelLocation(calls[p].headers), "vercel")]
  /\ UNCHANGED <<env, maxmind, ipCall, devCall, blkCall>>

\* the Vercel headers
ReturnVercel(p) ==
  /\ calls[p].pc = "isLocalhost"
  /\ ~IsLocalhost(calls[p].ip)
  /\ FastPathOf(calls[p])
  /\ ~HasCloudflare(calls[p])
  /\ HasVercel(calls[p])
  /\ calls' = [calls EXCEPT ![p] =
       Returns([calls[p] EXCEPT !.readGeo = TRUE],
               VercelLocation(calls[p].headers), "vercel")]
  /\ UNCHANGED <<env, maxmind, ipCall, devCall, blkCall>>

\* global[MAXMIND].get(cleanIp) and what follows it, on the call c with the
\* handle h: reader.get of a value that is no string either throws or
\* finds nothing
Lookup(c, h) ==
  LET cleanIp == CleanIp(c.ip)
      d == [c EXCEPT !.cleanIp = cleanIp, !.handle = h]
  IN { Returns(d, DbLocation(DbGet(cleanIp)),
               IF DbGet(cleanIp).found THEN "database" ELSE "none") }
     \cup
     IF IsString(cleanIp) THEN {} ELSE { Throws(d) }

\* the maxmind.open of the call was rejected
OpenFailed(c) == c.openId # 0 /\ c.pc # "open" /\ ~c.wrote

\* if (!global[MAXMIND]) { ... maxmind.open(...) }: the call starts to open
\* the database and awaits it
OpenDatabase(p) ==
  /\ ReachesDatabase(calls[p])
  /\ maxmind = 0
  /\ calls' = [calls EXCEPT ![p].pc = "open", ![p].openId = Reader[p],
                            ![p].afterRejection =
                              \E q \in Procs : OpenFailed(calls[q]),
                            ![p].readGeo = FastPathOf(calls[p])]
  /\ UNCHANGED <<env, maxmind, ipCall, devCall, blkCall>>

\* the handle is set already: the lookup follows at once
LookupOpened(p) ==
  /\ ReachesDatabase(calls[p])
  /\ maxmind # 0
  /\ calls' \in { [calls EXCEPT ![p] = d] :
                    d \in Lookup([calls[p] EXCEPT !.readGeo = FastPathOf(calls[p])],
                                 maxmind) }
  /\ UNCHANGED <<env, maxmind, ipCall, devCall, blkCall>>

\* maxmind.open resolves: global[MAXMIND] = <the new reader>, then the lookup
OpenResolved(p) ==
  /\ calls[p].pc = "open"
  /\ maxmind' = calls[p].openId
  /\ calls' \in { [calls EXCEPT ![p] = d] :
                    d \in Lookup([calls[p] EXCEPT !.wrote = TRUE], calls[p].openId) }
  /\ UNCHANGED <<env, ipCall, devCall, blkCall>>

\* a rejected maxmind.open swallowed: the call returns no location
OpenRejected_Swallowed(p) ==
  /\ calls[p].pc = "open"
  /\ calls' = [calls EXCEPT ![p] = Returns(calls[p], NoLocation, "none")]
  /\ UNCHANGED <<env, maxmind, ipCall, devCall, blkCall>>

\* maxmind.open rejects: the error leaves getLocation
OpenRejected(p) ==
  /\ calls[p].pc = "open"
  /\ calls' = [calls EXCEPT ![p] = Throws(calls[p])]
  /\ UNCHANGED <<env, maxmind, ipCall, devCall, blkCall>>

\* getClientInfo resumes from `await getLocation(...)`: with the location it
\* builds the record and returns it, with the error it throws
ResumeClientInfo(p) ==
  /\ calls[p].pc \in {"returned", "threw"}
  /\ calls' = [calls EXCEPT ![p] =
       IF calls[p].pc = "returned"
       THEN [calls[p] EXCEPT !.pc = "done",
                             !.info = ClientInfo(calls[p], calls[p].location)]
       ELSE [calls[p] EXCEPT !.pc = "error"]]
  /\ UNCHANGED <<env, maxmind, ipCall, devCall, blkCall>>

\* the caller has the result (or the error); the process is free for the
\* next request
Finished(p) ==
  /\ calls[p].pc \in {"done", "error", "typeError"}
  /\ calls' = [calls EXCEPT ![p] = IdleCall]
  /\ UNCHANGED <<env, maxmind, ipCall, devCall, blkCall>>

NextLoc ==
  \E p \in Procs :
    \/ GetClientInfo(p)
    \/ GetLocation(p)
    \/ ReturnLocal(p)
    \/ ReturnCloudflare(p)
    \/ ReturnVercel(p)
    \/ OpenDatabase(p)
    \/ LookupOpened(p)
    \/ OpenResolved(p)
    \/ OpenRejected(p)
    \/ ResumeClientInfo(p)
    \/ Finished(p)

Spec == InitLoc /\ [][NextLoc]_vars

----------------------------------------------------------------------------
(* Properties *)

Call(p) == calls[p]

\* getLocation has returned, has thrown, in the call
LocationReturned(c) == c.pc \in {"returned", "done"}
LocationThrew(c) == c.pc \in {"threw", "error"}

\* the call has passed `await isLocalhost(ip)`
PastLocalCheck(c) == c.pc = "open" \/ LocationReturned(c) \/ LocationThrew(c)

\* the call neither opened, assigned nor queried the database handle
LeftDatabaseAlone(c) ==
  c.openId = 0 /\ ~c.wrote /\ c.handle = 0 /\ c.cleanIp = Undefined

\* C1: the database file is opened once and the handle, once set, is never
\* replaced by a different handle, however many calls reach the database
\* fallback before it is set.
C1_HandleNeverReplaced == [][maxmind # 0 => maxmind' = maxmind]_vars

\* the sources of getIpAddress in their order of precedence
IpSources(customHeader) ==
  <<"cf-connecting-ip">> \o
  (IF customHeader # "" THEN <<customHeader>> ELSE <<>>) \o
  <<"x-forwarded-for">> \o IP_ADDRESS_HEADERS

\* the positions of IpSources whose header is present and not empty
PresentSources(headers, customHeader) ==
  { i \in 1..Len(IpSources(customHeader)) :
      /\ IsHeaderName(IpSources(customHeader)[i])
      /\ Truthy(Get(headers, IpSources(customHeader)[i])) }

FirstSource(headers, customHeader) ==
  CHOOSE i \in PresentSources(headers, customHeader) :
    \A j \in PresentSources(headers, customHeader) : i <= j

\* position of x-forwarded-for in IpSources
XffPosition(customHeader) == IF customHeader # "" THEN 3 ELSE 2

\* the result of the finished getIpAddress call is the value of the first
\* present source, or null
ResultByPrecedence ==
  LET h == ipCall.headers
      custom == env.CLIENT_IP_HEADER
      present == PresentSources(h, custom)
  IN /\ present = {} => ipCall.result = Null
     /\ present # {} =>
          LET i == FirstSource(h, custom)
              value == Get(h, IpSources(custom)[i])
          IN IF i = XffPosition(custom)
             THEN ipCall.result = Trim(Split(value, ",")[1])
             ELSE IF i > XffPosition(custom) /\ IpSources(custom)[i] = "forwarded"
             THEN ipCall.result =
                    IF ForwardedMatch(value) # Null THEN ForwardedMatch(value) ELSE value
             ELSE ipCall.result = value

\* with cf-connecting-ip and x-forwarded-for both there the result is the
\* cf-connecting-ip value
CloudflareBeforeForwardedFor ==
  (Truthy(Get(ipCall.headers, "cf-connecting-ip"))
   /\ Truthy(Get(ipCall.headers, "x-forwarded-for")))
    => ipCall.result = Get(ipCall.headers, "cf-connecting-ip")

\* C2 as stated: getIpAddress returns the value of the first present,
\* non-empty source in the order cf-connecting-ip, the CLIENT_IP_HEADER
\* header, x-forwarded-for (its first entry), the IP_ADDRESS_HEADERS in order
\* (for forwarded its for= parameter), and null when none is present; with
\* cf-connecting-ip and x-forwarded-for both there it is the cf-connecting-ip
\* value.
C2_IpPrecedence ==
  ipCall.pc = "done" => (ResultByPrecedence /\ CloudflareBeforeForwardedFor)

\* C2 as amended: the same when CLIENT_IP_HEADER is not set or is a header
\* name; when it is set and no header name, the call returns the
\* cf-connecting-ip value if that is present and not empty, and throws a
\* TypeError otherwise.
C2_IpPrecedenceOfHeaderNames ==
  ipCall.pc = "done" =>
    /\ CloudflareBeforeForwardedFor
    /\ IF env.CLIENT_IP_HEADER = "" \/ IsHeaderName(env.CLIENT_IP_HEADER)
       THEN ResultByPrecedence
       ELSE IF Truthy(Get(ipCall.headers, "cf-connecting-ip"))
       THEN ipCall.result = Get(ipCall.headers, "cf-connecting-ip")
       ELSE ipCall.result = TypeError

C2_Witness ==
  /\ ipCall.pc = "done"
  /\ env.CLIENT_IP_HEADER = "X-Custom"
  /\ {"cf-connecting-ip", "x-custom", "x-forwarded-for", "forwarded"}
       \subseteq DOMAIN ipCall.headers
  /\ ipCall.headers["x-forwarded-for"] = XFF_LIST
  /\ ipCall.result = IP_V4_C

\* s contains "for="
RECURSIVE HasForParamFrom(_, _)
HasForParamFrom(s, i) ==
  IF i + 3 > Len(s) THEN FALSE
  ELSE IF SubSeq(s, i, i + 3) = <<"f", "o", "r", "=">> THEN TRUE
  ELSE HasForParamFrom(s, i + 1)

HasForParam(s) == HasForParamFrom(s, 1)

\* the IP is resolved from the forwarded header of the IP_ADDRESS_HEADERS
\* loop: no source before it is present
ResolvedFromForwarded(headers, customHeader) ==
  /\ customHeader = "" \/ IsHeaderName(customHeader)
  /\ PresentSources(headers, customHeader) # {}
  /\ FirstSource(headers, customHeader) > XffPosition(customHeader)
  /\ IpSources(customHeader)[FirstSource(headers, customHeader)] = "forwarded"

\* C3: an IP resolved from a forwarded header with a for= parameter is the
\* for= address without its square brackets: for="[2001:db8::1]";proto=https
\* gives 2001:db8::1, and the result never contains "[" or "]".
C3_ForwardedBracketsStripped ==
  ( /\ ipCall.pc = "done"
    /\ ResolvedFromForwarded(ipCall.headers, env.CLIENT_IP_HEADER)
    /\ HasForParam(Get(ipCall.headers, "forwarded")) )
  => /\ ~Includes(ipCall.result, "[")
     /\ ~Includes(ipCall.result, "]")
     /\ Get(ipCall.headers, "forwarded") = FWD_QUOTED => ipCall.result = IP_V6

\* C4: a call whose IP is local returns no location, before it reads a
\* geolocation header and without opening, setting or querying the database
\* handle, whatever the headers, hasPayloadIP and the configuration are.
C4_LocalIpNoLocation ==
  \A p \in Procs :
    (IsLocalhost(Call(p).ip) /\ PastLocalCheck(Call(p))) =>
      /\ LocationReturned(Call(p))
      /\ Call(p).location = NoLocation
      /\ Call(p).source = "none"
      /\ ~Call(p).readGeo
      /\ LeftDatabaseAlone(Call(p))
      /\ (Call(p).fn = "getClientInfo" /\ Call(p).pc = "done") =>
           /\ Call(p).info.country = Undefined
           /\ Call(p).info.region = Undefined
           /\ Call(p).info.city = Undefined

C4_Witness ==
  \E p \in Procs :
    /\ Call(p).pc = "done"
    /\ Call(p).fn = "getClientInfo"
    /\ Call(p).ip = IP_LOOPBACK
    /\ ~Call(p).hasPayloadIP
    /\ ~env.SKIP_LOCATION_HEADERS
    /\ HasCloudflare(Call(p))
    /\ maxmind # 0

\* C5: with a payload IP (hasPayloadIP, which getClientInfo sets exactly when
\* the payload has an IP) or with SKIP_LOCATION_HEADERS set, the location is
\* never taken from the Cloudflare or Vercel headers: for an IP that is not
\* local it is the result of the database lookup, or absent on no match.
C5_NoHeaderLocation ==
  \A p \in Procs :
    /\ Call(p).fn = "getClientInfo" =>
         /\ Call(p).hasPayloadIP = Truthy(Call(p).payload.ip)
         /\ Call(p).hasPayloadIP => Call(p).ip = Call(p).payload.ip
    /\ ( /\ LocationReturned(Call(p))
         /\ Call(p).hasPayloadIP \/ env.SKIP_LOCATION_HEADERS ) =>
         /\ Call(p).source \in {"database", "none"}
         /\ ~IsLocalhost(Call(p).ip) =>
              /\ Call(p).handle # 0
              /\ Call(p).location = DbLocation(DbGet(Call(p).cleanIp))
         /\ (Call(p).fn = "getClientInfo" /\ Call(p).pc = "done") =>
              Call(p).info.country = safeDecodeURIComponent(Call(p).location.country)

C5_Witness ==
  \E p \in Procs :
    /\ Call(p).pc = "done"
    /\ Call(p).fn = "getClientInfo"
    /\ Call(p).payload.ip = IP_V4_B
    /\ HasCloudflare(Call(p)) /\ HasVercel(Call(p))
    /\ ~env.SKIP_LOCATION_HEADERS
    /\ Call(p).info.country = FR

\* C6: with the fast path enabled and a country header present, the call
\* returns the location of the headers, Cloudflare's before Vercel's, and
\* neither opens, sets nor queries the database handle; the database step is
\* entered only when no country header gave a result.
C6_FastPathSkipsDatabase ==
  \A p \in Procs :
    LET c == Call(p)
        fast == ~c.hasPayloadIP /\ ~env.SKIP_LOCATION_HEADERS
        cf == Truthy(Get(c.headers, "cf-ipcountry"))
        vercel == Truthy(Get(c.headers, "x-vercel-ip-country"))
    IN /\ (PastLocalCheck(c) /\ ~IsLocalhost(c.ip) /\ fast /\ (cf \/ vercel)) =>
            /\ LocationReturned(c)
            /\ LeftDatabaseAlone(c)
            /\ c.location.present
            /\ IF cf
               THEN /\ c.source = "cloudflare"
                    /\ c.location.country = decodeHeader(Get(c.headers, "cf-ipcountry"))
                    /\ c.location.city = decodeHeader(Get(c.headers, "cf-ipcity"))
               ELSE /\ c.source = "vercel"
                    /\ c.location.country = decodeHeader(Get(c.headers, "x-vercel-ip-country"))
                    /\ c.location.city = decodeHeader(Get(c.headers, "x-vercel-ip-city"))
       /\ ~LeftDatabaseAlone(c) => ~(fast /\ (cf \/ vercel))

C6_Witness ==
  \E p \in Procs :
    /\ Call(p).pc = "done"
    /\ Call(p).source = "cloudflare"
    /\ HasVercel(Call(p))
    /\ Call(p).location.city = <<"L", "0xE9", "o", "n">>
    /\ maxmind = 0
    /\ \A q \in Procs : Call(q).openId = 0

\* the entries of IGNORE_IP
IgnoreEntries == MapTrim(Split(env.IGNORE_IP, ","))

\* the entry matches the candidate exactly or by CIDR; an entry or a
\* candidate that does not parse is no match
EntryMatches(entry, clientIp) ==
  \/ entry = clientIp
  \/ /\ IndexOf(entry, "/") > 1
     /\ Parse(clientIp) # Invalid
     /\ ParseCIDR(entry) # InvalidRange
     /\ Parse(clientIp).kind = ParseCIDR(entry).addr.kind
     /\ Match(Parse(clientIp), ParseCIDR(entry))

\* C7: a malformed CIDR entry or a malformed candidate IP never aborts
\* hasBlockedIp: the entry counts as no match, the remaining entries are
\* still evaluated and the call returns a result.
C7_MalformedNeverAborts ==
  blkCall.pc = "done" =>
    /\ ~blkCall.result.threw
    /\ Truthy(env.IGNORE_IP) =>
         ( blkCall.result.value # Undefined
           <=> \E i \in 1..Len(IgnoreEntries) :
                 EntryMatches(IgnoreEntries[i], blkCall.clientIp) )

\* C8: getDevice is absent for an absent or empty screen; else a desktop OS
\* gives laptop iff the OS is Chrome OS or width < DESKTOP_SCREEN_WIDTH and
\* desktop otherwise, a mobile OS gives tablet iff the OS is Amazon OS or
\* width > MOBILE_SCREEN_WIDTH and mobile otherwise, and any other OS gives
\* the class of the first of the descending thresholds that width reaches.
C8_DeviceClass ==
  devCall.pc = "done" =>
    LET screen == devCall.screen
        os == devCall.os
        device == devCall.result
        width == ToNumber(Split(screen, "x")[1])
    IN IF screen \in {Undefined, Null, <<>>} THEN device = NoDevice
       ELSE IF os \in DESKTOP_OS
       THEN /\ device \in {"laptop", "desktop"}
            /\ device = "laptop" <=> (os = "Chrome OS" \/ Lt(width, DESKTOP_SCREEN_WIDTH))
       ELSE IF os \in MOBILE_OS
       THEN /\ device \in {"tablet", "mobile"}
            /\ device = "tablet" <=> (os = "Amazon OS" \/ Gt(width, MOBILE_SCREEN_WIDTH))
       ELSE /\ device = "desktop" <=> Ge(width, DESKTOP_SCREEN_WIDTH)
            /\ device = "laptop" <=>
                 (~Ge(width, DESKTOP_SCREEN_WIDTH) /\ Ge(width, LAPTOP_SCREEN_WIDTH))
            /\ device = "tablet" <=>
                 (~Ge(width, LAPTOP_SCREEN_WIDTH) /\ Ge(width, MOBILE_SCREEN_WIDTH))
            /\ device = "mobile" <=> ~Ge(width, MOBILE_SCREEN_WIDTH)

C8_Witness ==
  /\ devCall.pc = "done"
  /\ devCall.os = "iOS"
  /\ devCall.screen = <<"4", "7", "9", "x", "8", "0", "0">>
  /\ devCall.result = "mobile"

\* ip without a trailing :port suffix: the part before the colon when ip has
\* one colon followed by digits only, ip itself otherwise
WithoutPort(ip) ==
  LET ps == Split(ip, ":")
  IN IF Len(ps) = 2 /\ ps[2] # <<>> /\ AllIn(ps[2], Digits) THEN ps[1] ELSE ip

\* C9: the address of the database lookup is the IP with only a trailing
\* :port suffix removed: an IPv4 address with a port is looked up bare, an
\* address without a port, IPv6 included, is looked up unchanged.
C9_OnlyPortStripped ==
  \A p \in Procs :
    (Call(p).handle # 0 /\ IsString(Call(p).ip)) =>
      Call(p).cleanIp = WithoutPort(Call(p).ip)

\* C10: a call whose maxmind.open fails ends in an error, which is not the
\* absent result of a lookup without a match, and leaves the shared handle
\* as it was, so that a later call opens again; a call whose open succeeds
\* and whose lookup finds nothing returns absent, not an error.
C10_OpenFailureIsError ==
  \A p \in Procs :
    LET c == Call(p)
    IN /\ OpenFailed(c) =>
            /\ LocationThrew(c)
            /\ c.handle = 0
            /\ c.info = NoInfo
       /\ (c.openId # 0 /\ ~c.wrote) => maxmind # c.openId
       /\ (c.wrote /\ IsString(c.cleanIp) /\ ~DbGet(c.cleanIp).found) =>
            /\ LocationReturned(c)
            /\ c.location = NoLocation
            /\ maxmind # 0
       /\ LocationReturned(c) => (c.openId = 0 \/ c.wrote)

\* an open has failed, the handle is unset and a later open is under way
C10_Witness ==
  \E p, q \in Procs :
    /\ p # q
    /\ Call(p).pc = "error" /\ OpenFailed(Call(p)) /\ Call(p).fn = "getClientInfo"
    /\ Call(q).pc = "open" /\ Call(q).afterRejection
    /\ maxmind = 0

====
